---- MODULE Spec2Model ----
(***************************************************************************)
(* Model of the TEP fault-explainer backend (src/backend/app.py and        *)
(* src/backend/multi_llm_client.py): the /ingest decimation and LLM        *)
(* trigger gate, the background analysis task it spawns, the runtime       *)
(* configuration endpoints, and the parallel multi-backend dispatch.       *)
(***************************************************************************)
EXTENDS Integers, Sequences, FiniteSets, TLC

(***************************************************************************)
(* Bounds of the model                                                     *)
(***************************************************************************)
\* raw rows posted to /ingest in one behaviour
MaxRaw == 6
\* seconds the wall clock advances in one behaviour
MaxTicks == 1
\* calls of the operator endpoints (/config/runtime, /reset_lmstudio) in one
\* behaviour
MaxAdminCalls == 1
\* pca_window_size of config.json at startup
InitWindow == 5
\* largest decimation_N of config.json at startup
MaxInitDecimation == 2
\* llm_min_interval_seconds of config.json at startup
InitMinInterval == 1
\* display_duration of a manager, in clock ticks (7 or 10 seconds in
\* IndependentLLMSystem.__init__)
DisplayDuration == 2
\* seconds the wall clock advances while a manager is in use
MaxManagerTicks == 5
\* capacity of a console subscriber's queue (queue.Queue(maxsize=100))
QueueMaxSize == 2
\* events broadcast by the console in one behaviour
MaxEvents == 4
\* /explain requests in one behaviour
MaxExplains == 3
\* milliseconds the wall clock advances in one behaviour
MaxMsTicks == 3
\* manual analyses accepted by the managers in one behaviour
MaxAnalyses == 2
\* seconds the wall clock advances while no display timer is pending
MaxSystemTicks == 2
\* seconds the wall clock advances between change checks
MaxCheckTicks == 7
\* calls of /check_anomaly_change in one behaviour
MaxChecks == 4
\* simulation loop threads created in one behaviour
MaxLoopThreads == 3

(***************************************************************************)
(* Program constants                                                       *)
(***************************************************************************)
\* time.time() when the service starts: far above every interval, so the
\* initial last_llm_request_time = 0 never rate-limits the first request
Epoch == 10
\* enough_context = len(live_buffer) >= max(5, int(LIVE_WINDOW_SIZE/2))
MinContextFloor == 5
\* max_retries = 1 in _query_lmstudio: range(max_retries) is one attempt
LMStudioMaxRetries == 1
\* feature_shift_jaccard_threshold default 0.6, in percent
\* AnomalyStateTracker(check_interval=5, ...) (app.py:248)
CheckInterval == 5
JaccardThresholdPct == 60
\* feature_shift_min_interval_seconds default
FeatureShiftMinInterval == 120
\* _analysis_history = deque(maxlen=6)
HistoryMaxLen == 6

\* the model names of MultiLLMClient.__init__
Backends == {"lmstudio", "anthropic", "gemini"}

\* values of the one abstract sensor feature of a raw row
RowValues == {0, 2}
\* top-K contributing feature sets the ranking can produce
FeatureSets == {{"T", "P"}, {"F", "L"}}

Max(a, b) == IF a >= b THEN a ELSE b

Last(s) == s[Len(s)]

VARIABLES
    \* --- runtime configuration (app.py:288-295, AnomalyStateTracker) ---
    LIVE_WINDOW_SIZE,
    consecutive_anomalies_required,
    decimation_N,
    min_llm_interval,
    feature_shift_jaccard_threshold,
    feature_shift_min_interval_seconds,
    \* --- live state (app.py:300-312) ---
    consecutive_anomalies,
    last_analysis_result,
    last_llm_trigger_time,
    last_llm_top_features,
    analysis_history,
    live_buffer,
    live_buffer_maxlen,
    recent_raw_rows,
    aggregated_count,
    \* --- AnomalyStateTracker (app.py:130-135) ---
    is_analyzing,
    last_llm_request_time,
    \* --- environment and asyncio tasks ---
    clock,
    tasks,
    ack,
    \* --- MultiLLMClient and one get_analysis_from_all_models call ---
    enabled_models,
    runtime_enabled_models,
    scripts,
    query_results,
    dispatch_pc,
    dispatch_return,
    \* --- history of the run, read only by the properties ---
    rawHist,
    aggHist,
    obs,
    trigLog,
    decimationFixed,
    timerReset,
    adminCalls,
    \* --- one IndependentModelManager (independent_llm_manager.py) ---
    manager,
    display_timers,
    manager_pc,
    manager_reply,
    manager_op,
    \* --- the subscribers of GET /stream (app.py:813-846) ---
    stream_pc,
    last_time_seen,
    stream_events,
    connected_at,
    \* --- the console's SSE broadcast (unified_console.py:1268-1410) ---
    sse_queues,
    client_queue,
    console_pc,
    console_out,
    events_sent,
    \* --- POST /explain (app.py:1724-1856) and the wall clock in ms ---
    explains_pending,
    clock_ms,
    bundleLog,
    \* --- IndependentLLMSystem (independent_llm_manager.py:197-243) ---
    managers,
    system_timers,
    analyses_in_flight,
    analyses_accepted,
    system_reply,
    system_op,
    \* --- AnomalyStateTracker's change detection (app.py:119-222) ---
    last_state_hash,
    last_check_time,
    change_reply,
    checks_done,
    \* --- TEPDataBridge's simulation loop (unified_console.py:602-799) ---
    tep_running,
    sim_threads,
    restart_pc,
    sim_reply,
    \* --- the reply of MultiLLMClient.toggle_model ---
    toggle_reply

cfgVars == <<LIVE_WINDOW_SIZE, consecutive_anomalies_required, decimation_N,
             min_llm_interval, feature_shift_jaccard_threshold,
             feature_shift_min_interval_seconds>>
liveVars == <<consecutive_anomalies, last_analysis_result, last_llm_trigger_time,
              last_llm_top_features, analysis_history, live_buffer,
              live_buffer_maxlen, recent_raw_rows, aggregated_count>>
trackerVars == <<is_analyzing, last_llm_request_time>>
envVars == <<clock, tasks, ack>>
dispatchVars == <<enabled_models, runtime_enabled_models, scripts, query_results,
                  dispatch_pc, dispatch_return>>
histVars == <<rawHist, aggHist, obs, trigLog, decimationFixed, timerReset,
              adminCalls>>
managerVars == <<manager, display_timers, manager_pc, manager_reply, manager_op>>
\* the state of the components beside the ingest path and the dispatch
streamVars == <<stream_pc, last_time_seen, stream_events, connected_at>>
broadcastVars == <<sse_queues, client_queue, console_pc, console_out, events_sent>>
explainVars == <<explains_pending, clock_ms, bundleLog>>
\* the managers of the system, the pending _display_timer tasks and the
\* analyze_fault coroutines awaiting their backend
systemVars == <<managers, system_timers, analyses_in_flight, analyses_accepted,
                system_reply, system_op>>
changeVars == <<last_state_hash, last_check_time, change_reply, checks_done>>
simVars == <<tep_running, sim_threads, restart_pc, sim_reply>>
otherVars == <<managerVars, streamVars, broadcastVars, explainVars, systemVars,
               changeVars, simVars, toggle_reply>>
\* what the console's simulation control leaves alone: the whole backend
besideSim == <<cfgVars, liveVars, trackerVars, envVars, dispatchVars, histVars,
               managerVars, streamVars, broadcastVars, explainVars, systemVars,
               changeVars, toggle_reply>>
\* what an automatic cycle leaves alone beside the ingest path: everything
\* but the managers' stored results
besideCycle == <<managerVars, streamVars, broadcastVars, explainVars, system_timers,
                 analyses_in_flight, analyses_accepted, system_reply, changeVars,
                 simVars, toggle_reply>>
\* what the system's operations leave alone
besideSystem == <<cfgVars, liveVars, trackerVars, dispatchVars, histVars, managerVars,
                  streamVars, broadcastVars, explainVars, changeVars, simVars, toggle_reply>>
\* what a change check leaves alone
besideChange == <<cfgVars, liveVars, trackerVars, dispatchVars, histVars, managerVars,
                  streamVars, broadcastVars, explainVars, systemVars, simVars, toggle_reply>>
\* what the manager's steps leave alone beside the service's own state
besideManager == <<streamVars, broadcastVars, explainVars, systemVars, changeVars,
                   simVars, toggle_reply>>
\* what a stream subscriber's steps leave alone beside the service's own state
besideStream == <<managerVars, broadcastVars, explainVars, systemVars, changeVars,
                  simVars, toggle_reply>>
\* what the console's broadcast leaves alone: the whole backend
besideBroadcast == <<cfgVars, liveVars, trackerVars, envVars, dispatchVars, histVars,
                     managerVars, streamVars, explainVars, systemVars, changeVars,
                     simVars, toggle_reply>>
\* what /explain leaves alone beside the analysis history
besideExplain == <<cfgVars, trackerVars, envVars, dispatchVars, histVars,
                   managerVars, streamVars, broadcastVars, systemVars, changeVars,
                   simVars, toggle_reply>>
vars == <<cfgVars, liveVars, trackerVars, envVars, dispatchVars, histVars, otherVars>>

(***************************************************************************)
(* collections.deque(maxlen=...) and Python slicing                        *)
(***************************************************************************)
\* the last k items of s: s[-k:] for k > 0
LastK(s, k) == IF k >= Len(s) THEN s ELSE SubSeq(s, Len(s) - k + 1, Len(s))

\* s[n:] for n >= 0
DropFirst(s, n) == IF n >= Len(s) THEN <<>> ELSE SubSeq(s, n + 1, Len(s))

\* deque.append on a deque of the given maxlen: the oldest item is evicted
DequeAppend(d, x, maxlen) ==
    IF maxlen = 0 THEN <<>>
    ELSE IF Len(d) >= maxlen THEN Append(DropFirst(d, Len(d) - maxlen + 1), x)
    ELSE Append(d, x)

\* deque(items, maxlen=maxlen) for maxlen >= 0: keeps the last maxlen items
DequeNew(items, maxlen) == IF maxlen = 0 THEN <<>> ELSE LastK(items, maxlen)

\* int(w / 2): Python float division truncated toward zero
HalfTrunc(w) == IF w >= 0 THEN w \div 2 ELSE -((-w) \div 2)

(***************************************************************************)
(* Aggregation and the detector oracle                                     *)
(***************************************************************************)
RECURSIVE SumSeq(_)
SumSeq(s) == IF s = <<>> THEN 0 ELSE Head(s) + SumSeq(Tail(s))

\* arr.mean(axis=0): the exact mean sum/n of the buffered raw rows, kept as
\* the pair (sum, n)
MeanVec(rows) == [sum |-> SumSeq(rows), n |-> Len(rows)]

\* pca_model.process_data_point: an opaque deterministic verdict on the
\* aggregated row; here a row is anomalous iff its mean is at least 1
process_data_point(row) == row.sum >= row.n

(***************************************************************************)
(* AnomalyStateTracker.can_send_llm_request                                *)
(***************************************************************************)
can_send_llm_request(now, last, min_interval) ==
    ~((now - last) < min_interval)

\* the name `now` is read at app.py:741 and app.py:803 but is bound neither
\* in ingest_live_point nor at module level: reading it raises NameError
NowIsBound == FALSE

\* Jaccard similarity of two feature sets, in percent (1 for two empty sets)
JaccardPct(a, b) ==
    IF a \cup b = {} THEN 100
    ELSE (100 * Cardinality(a \cap b)) \div Cardinality(a \cup b)

(***************************************************************************)
(* MultiLLMClient (multi_llm_client.py)                                    *)
(***************************************************************************)
\* what one SDK call to a backend can do: return text, exceed its timeout,
\* fail in transport, or return a response with empty text
RawOutcomes == {"ok", "timeout", "transport", "empty"}

\* the outcomes of a backend's first call and of a second call, if one is
\* made
Scripts == {<<a, b>> : a \in RawOutcomes, b \in {"ok", "transport"}}

Returned(text, n) == [raised |-> FALSE, text |-> text, reason |-> "none", attempts |-> n]
Raised(reason, n) == [raised |-> TRUE, text |-> "none", reason |-> reason, attempts |-> n]

\* _query_lmstudio: for attempt in range(max_retries); an empty response
\* raises inside the try, and timeouts and other errors are retried alike
\* while attempt < max_retries - 1
RECURSIVE query_lmstudio_from(_, _, _)
query_lmstudio_from(script, attempt, max_retries) ==
    IF script[attempt] = "ok" THEN Returned("content", attempt)
    ELSE IF attempt - 1 < max_retries - 1
         THEN query_lmstudio_from(script, attempt + 1, max_retries)
         ELSE Raised(script[attempt], attempt)

\* _query_lmstudio, had max_retries been 2: one retry after a failed attempt
query_lmstudio_one_retry(script) == query_lmstudio_from(script, 1, LMStudioMaxRetries + 1)

query_lmstudio(script) == query_lmstudio_from(script, 1, LMStudioMaxRetries)

\* _query_claude: one call under wait_for(timeout=30); the text of the
\* response is returned unchecked
query_claude(script) ==
    CASE script[1] = "ok" -> Returned("content", 1)
      [] script[1] = "empty" -> Returned("", 1)
      [] OTHER -> Raised(script[1], 1)

\* _query_gemini: one call, SDK timeout 60 s; response.text is returned
\* unchecked
query_gemini(script) ==
    CASE script[1] = "ok" -> Returned("content", 1)
      [] script[1] = "empty" -> Returned("", 1)
      [] OTHER -> Raised(script[1], 1)

\* query_model inside get_analysis_from_all_models: every exception of the
\* backend call becomes an entry with status "error" and the reason text
query_model(model_name, script) ==
    LET r == CASE model_name = "lmstudio" -> query_lmstudio(script)
               [] model_name = "anthropic" -> query_claude(script)
               [] model_name = "gemini" -> query_gemini(script)
    IN  IF r.raised
        THEN [collected |-> TRUE, analysis |-> "Error", reason |-> r.reason,
              status |-> "error", attempts |-> r.attempts]
        ELSE [collected |-> TRUE, analysis |-> r.text, reason |-> "none",
              status |-> "success", attempts |-> r.attempts]

\* runtime toggles are the model name itself (runtime-enabled) or
\* "disabled_<name>"; here the pair <<"on" | "disabled", name>>
get_active_models(enabled, runtime) ==
    {m \in enabled : <<"disabled", m>> \notin runtime}
        \cup {m \in Backends : <<"on", m>> \in runtime}

\* self.clients: a client for each of the three models of config.json,
\* enabled or not
clients == Backends

\* model names a toggle request may carry; "mistral" has no client
ModelNames == Backends \cup {"mistral"}

\* the runtime toggles after toggle_model, had enabling only added and never
\* removed the "disabled_<name>" mark
runtime_after_toggle_add_only(enabled, runtime, model_name, on) ==
    IF on
    THEN IF model_name \notin enabled THEN runtime \cup {<<"on", model_name>>} ELSE runtime
    ELSE IF model_name \in enabled
         THEN runtime \cup {<<"disabled", model_name>>}
         ELSE runtime \ {<<"on", model_name>>}

\* the runtime toggles after toggle_model(model_name, on) on a known model
runtime_after_toggle(enabled, runtime, model_name, on) ==
    IF on
    THEN (IF model_name \notin enabled
          THEN runtime \cup {<<"on", model_name>>} ELSE runtime)
             \ {<<"disabled", model_name>>}
    ELSE IF model_name \in enabled
         THEN runtime \cup {<<"disabled", model_name>>}
         ELSE runtime \ {<<"on", model_name>>}

\* toggle_model: an error for a model without a client, else the toggles are
\* updated and the active models returned
toggle_model(model_name, on) ==
    /\ IF model_name \notin clients
       THEN /\ toggle_reply' = [status |-> "error", model |-> model_name,
                                active_models |-> {}]
            /\ UNCHANGED runtime_enabled_models
       ELSE LET runtime1 == runtime_after_toggle(enabled_models,
                                                 runtime_enabled_models, model_name, on)
            IN  /\ runtime_enabled_models' = runtime1
                /\ toggle_reply' =
                       [status |-> "success", model |-> model_name,
                        active_models |-> get_active_models(enabled_models, runtime1)]
    /\ UNCHANGED <<cfgVars, liveVars, trackerVars, envVars, histVars, enabled_models,
                   scripts, query_results, dispatch_pc, dispatch_return, managerVars,
                   streamVars, broadcastVars, explainVars, systemVars, changeVars,
                   simVars>>

\* the collection loop after asyncio.gather: results that are exceptions are
\* skipped, the others are keyed by model name
CollectResults(settled) ==
    LET kept == {m \in DOMAIN settled : settled[m].collected}
    IN  [m \in kept |-> settled[m]]

\* no return value yet
NoReturn == [error |-> "none", results |-> <<>>, models_queried |-> {}]

\* get_analysis_from_all_models as a whole, the backends behaving as sc says
get_analysis_from_all_models(active, sc) ==
    IF active = {}
    THEN [error |-> "No models enabled", results |-> <<>>, models_queried |-> {}]
    ELSE [error |-> "none",
          results |-> CollectResults([m \in active |-> query_model(m, sc[m])]),
          models_queried |-> active]

\* format_comparative_results: analysis, response time and status per model
format_comparative_results(res) ==
    [m \in DOMAIN res.results |->
        [analysis |-> res.results[m].analysis, status |-> res.results[m].status]]

(***************************************************************************)
(* /ingest (app.py:592-811)                                                *)
(***************************************************************************)
NoAck == [http |-> 0, status |-> "none", reason |-> "none", aggregating |-> FALSE,
          have |-> 0, need |-> 0, llm |-> "none", top_features |-> {}]

NoObs == [call |-> "none", complete |-> FALSE, aggregated |-> FALSE,
          eligible |-> FALSE, in_flight |-> FALSE, can_send |-> FALSE,
          dispatching |-> FALSE, top |-> {}, started |-> FALSE]

\* return {"status": "ignored", "reason": "missing_features", ...}
AckIgnored == [NoAck EXCEPT !.http = 200, !.status = "ignored",
                            !.reason = "missing_features"]

\* return {"status": "ok", "aggregating": True, "have": ..., "need": ...}
AckAggregating(have, need) ==
    [NoAck EXCEPT !.http = 200, !.status = "ok", !.aggregating = TRUE,
                  !.have = have, !.need = need]

\* return result, with result["llm"] as the gate set it
AckResult(llm, top) ==
    [NoAck EXCEPT !.http = 200, !.status = "ok", !.llm = llm, !.top_features = top]

\* except Exception: raise HTTPException(status_code=500, ...)
AckServerError == [NoAck EXCEPT !.http = 500, !.status = "error"]

\* enough_context = len(live_buffer) >= max(5, int(LIVE_WINDOW_SIZE/2))
enough_context(buf, window) == Len(buf) >= Max(MinContextFloor, HalfTrunc(window))

\* the guard of the trigger branch, had it not asked for enough context
gate_open_without_context(is_anom, consecutive, required, buf, window) ==
    is_anom /\ consecutive >= Max(1, required)

\* the guard of the trigger branch (app.py:648)
gate_open(is_anom, consecutive, required, buf, window) ==
    is_anom /\ consecutive >= Max(1, required) /\ enough_context(buf, window)

\* _recent_raw_rows after a rejected row, had the row been appended before
\* the test for missing features
raw_rows_after_reject_appended(rows, v, maxlen) == DequeAppend(rows, v, maxlen)

\* _recent_raw_rows after a row with a missing feature: the handler returns
\* before _recent_raw_rows.append
raw_rows_after_reject(rows, v, maxlen) == rows

\* _recent_raw_rows after an aggregated row was computed, had the code
\* forgotten _recent_raw_rows.clear()
raw_rows_after_aggregation_kept(rows) == rows

\* _recent_raw_rows.clear() after an aggregated row was computed
raw_rows_after_aggregation(rows) == <<>>

\* a task made by asyncio.create_task(background_llm_analysis()), not yet run
NewTask(top) == [pc |-> "scheduled", top |-> top, settled |-> FALSE,
                 appended |-> 0, raised |-> FALSE]

\* the tasks that are inside their await of get_analysis_from_all_models
InFlight == {i \in 1..Len(tasks) : tasks[i].pc = "awaiting"}

ingest_live_point(v, complete, top) ==
    IF ~complete
    THEN \* a required feature is missing
         /\ ack' = AckIgnored
         /\ obs' = [NoObs EXCEPT !.call = "ingest"]
         /\ recent_raw_rows' = raw_rows_after_reject(recent_raw_rows, v, decimation_N)
         /\ UNCHANGED <<consecutive_anomalies, last_analysis_result,
                        last_llm_trigger_time, last_llm_top_features,
                        analysis_history, live_buffer, live_buffer_maxlen,
                        aggregated_count>>
         /\ UNCHANGED <<cfgVars, trackerVars, clock, tasks, dispatchVars, otherVars,
                        rawHist, aggHist, trigLog, decimationFixed, timerReset,
                        adminCalls>>
    ELSE
    LET raw1 == DequeAppend(recent_raw_rows, v, decimation_N) IN
    /\ Len(rawHist) < MaxRaw
    /\ rawHist' = Append(rawHist, v)
    /\ UNCHANGED <<cfgVars, trackerVars, clock, dispatchVars, otherVars, decimationFixed,
                   adminCalls, last_analysis_result, analysis_history,
                   live_buffer_maxlen>>
    /\ IF Len(raw1) < Max(1, decimation_N)
       THEN \* not enough raw rows for an aggregated point yet
            /\ recent_raw_rows' = raw1
            /\ ack' = AckAggregating(Len(raw1), decimation_N)
            /\ obs' = [NoObs EXCEPT !.call = "ingest", !.complete = TRUE]
            /\ UNCHANGED <<consecutive_anomalies, last_llm_trigger_time,
                           last_llm_top_features, live_buffer, aggregated_count,
                           tasks, aggHist, trigLog, timerReset>>
       ELSE
       LET row == MeanVec(raw1)
           count1 == aggregated_count + 1
           is_anom == process_data_point(row)
           buf1 == DequeAppend(live_buffer,
                               [time |-> count1, anomaly |-> is_anom, row |-> row],
                               live_buffer_maxlen)
           consec1 == IF is_anom THEN consecutive_anomalies + 1 ELSE 0
           open == gate_open(is_anom, consec1, consecutive_anomalies_required,
                             buf1, LIVE_WINDOW_SIZE)
           can_send == can_send_llm_request(clock, last_llm_request_time,
                                            min_llm_interval)
           trigger == open /\ ~is_analyzing /\ can_send
       IN
       /\ recent_raw_rows' = raw_rows_after_aggregation(raw1)
       /\ aggregated_count' = count1
       /\ live_buffer' = buf1
       /\ aggHist' = Append(aggHist, row)
       /\ obs' = [NoObs EXCEPT !.call = "ingest", !.complete = TRUE,
                               !.aggregated = TRUE, !.eligible = open,
                               !.in_flight = open /\ is_analyzing,
                               !.can_send = open /\ can_send,
                               !.dispatching = open /\ InFlight # {},
                               !.top = IF open THEN top ELSE {},
                               !.started = trigger]
       /\ IF ~open
          THEN /\ ack' = AckResult("not_triggered", {})
               /\ consecutive_anomalies' = consec1
               /\ UNCHANGED <<last_llm_trigger_time, last_llm_top_features, tasks,
                              trigLog, timerReset>>
          ELSE IF is_analyzing
          THEN /\ ack' = AckResult("analyzing_in_progress", {})
               /\ consecutive_anomalies' = consec1
               /\ UNCHANGED <<last_llm_trigger_time, last_llm_top_features, tasks,
                              trigLog, timerReset>>
          ELSE IF ~can_send
          THEN /\ ack' = AckResult("rate_limited", {})
               /\ consecutive_anomalies' = consec1
               /\ UNCHANGED <<last_llm_trigger_time, last_llm_top_features, tasks,
                              trigLog, timerReset>>
          ELSE \* asyncio.create_task(background_llm_analysis())
               /\ tasks' = Append(tasks, NewTask(top))
               /\ trigLog' = Append(trigLog,
                                    [at |-> clock, idx |-> count1, top |-> top,
                                     min |-> min_llm_interval,
                                     thr |-> feature_shift_jaccard_threshold,
                                     reset |-> timerReset,
                                     flag_before |-> is_analyzing])
               /\ timerReset' = FALSE
               /\ consecutive_anomalies' = 0
               /\ IF NowIsBound
                  THEN /\ last_llm_trigger_time' = clock
                       /\ last_llm_top_features' = top
                       /\ ack' = AckResult("triggered", top)
                  ELSE \* _last_llm_trigger_time = now raises NameError
                       /\ ack' = AckServerError
                       /\ UNCHANGED <<last_llm_trigger_time, last_llm_top_features>>

Ingest ==
    \E v \in RowValues, complete \in BOOLEAN, top \in FeatureSets :
        ingest_live_point(v, complete, top)

(***************************************************************************)
(* background_llm_analysis (app.py:674-796), one asyncio task per trigger  *)
(***************************************************************************)
\* the backends' behaviours offered to one automatic cycle: all succeed,
\* one times out, all fail
CycleScripts ==
    { [m \in Backends |-> <<"ok", "ok">>],
      [m \in Backends |-> IF m = "anthropic" THEN <<"timeout", "ok">> ELSE <<"ok", "ok">>],
      [m \in Backends |-> <<"transport", "ok">>] }

\* the finally clause, had the flag been cleared on the success path only
finally_flag_on_success(flag, raised) == IF raised THEN flag ELSE FALSE

\* finally: if anomaly_state_tracker.is_analyzing: ... = False
finally_flag(flag, raised) == FALSE

\* the first step of the task, up to its await: the flag is set and the
\* request time marked.  Tasks start in the order they were created.
BgStart(i) ==
    /\ i \in 1..Len(tasks)
    /\ tasks[i].pc = "scheduled"
    /\ \A j \in 1..(i - 1) : tasks[j].pc # "scheduled"
    /\ is_analyzing' = TRUE
    /\ last_llm_request_time' = clock
    /\ tasks' = [tasks EXCEPT ![i].pc = "awaiting"]
    /\ UNCHANGED <<cfgVars, liveVars, clock, ack, dispatchVars, otherVars, histVars>>

\* app.py:724-733: for every model whose analysis succeeded and that has a
\* manager, manager.current_result and manager.result_timestamp are set
managers_after_cycle(mgrs, formatted, now) ==
    [m \in DOMAIN mgrs |->
        IF m \in DOMAIN formatted /\ formatted[m].status = "success"
        THEN [mgrs[m] EXCEPT !.has_result = TRUE, !.result_timestamp = now]
        ELSE mgrs[m]]

\* the rest of the task, from the return of wait_for(...) to the end of the
\* finally clause; nothing in it awaits.  overall_timeout: the 180 s
\* wait_for fired and llm_results = {}.
BgFinish(i, sc, overall_timeout) ==
    LET active == get_active_models(enabled_models, runtime_enabled_models)
        llm_results == IF overall_timeout
                       THEN [error |-> "none", results |-> <<>>, models_queried |-> {}]
                       ELSE get_analysis_from_all_models(active, sc)
        formatted == format_comparative_results(llm_results)
        raised == ~NowIsBound
    IN
    /\ i \in 1..Len(tasks)
    /\ tasks[i].pc = "awaiting"
    /\ last_analysis_result' = formatted
    /\ IF NowIsBound
       THEN \* snap = {"id": ..., "time": now, **formatted}; history.append(snap)
            /\ analysis_history' =
                   DequeAppend(analysis_history, [id |-> clock, analyses |-> formatted],
                               HistoryMaxLen)
            /\ tasks' = [tasks EXCEPT ![i].pc = "done", ![i].settled = ~overall_timeout,
                                      ![i].appended = 1, ![i].raised = FALSE]
       ELSE \* NameError, caught by `except Exception`
            /\ UNCHANGED analysis_history
            /\ tasks' = [tasks EXCEPT ![i].pc = "done", ![i].settled = ~overall_timeout,
                                      ![i].raised = TRUE]
    /\ is_analyzing' = finally_flag(is_analyzing, raised)
    /\ managers' = managers_after_cycle(managers, formatted, clock)
    /\ system_op' = [op |-> "background_llm_analysis", model_name |-> "all"]
    /\ UNCHANGED <<cfgVars, consecutive_anomalies, last_llm_trigger_time,
                   last_llm_top_features, live_buffer, live_buffer_maxlen,
                   recent_raw_rows, aggregated_count, last_llm_request_time,
                   clock, ack, dispatchVars, besideCycle, histVars>>

BgStep ==
    \/ \E i \in 1..Len(tasks) : BgStart(i)
    \/ \E i \in 1..Len(tasks), sc \in CycleScripts, overall_timeout \in BOOLEAN :
           BgFinish(i, sc, overall_timeout)

(***************************************************************************)
(* /config/runtime (app.py:849-890) and /reset_lmstudio (app.py:1100-1133) *)
(***************************************************************************)
\* request bodies of /config/runtime: a JSON object of some of the knobs
Payloads ==
    {[k \in {"pca_window_size"} |-> w] : w \in {-1, 3}}
    \cup {[k \in {"decimation_N"} |-> 2]}
    \cup {[k \in {"fault_trigger_consecutive_step", "llm_min_interval_seconds",
                  "feature_shift_jaccard_threshold",
                  "feature_shift_min_interval_seconds"} |->
              CASE k = "fault_trigger_consecutive_step" -> 2
                [] k = "llm_min_interval_seconds" -> -1
                [] OTHER -> 30]}

Has(payload, k) == k \in DOMAIN payload

\* prev[-LIVE_WINDOW_SIZE:] for the new size w: the last w items for w > 0,
\* everything for w = 0, and prev[|w|:] for w < 0
window_slice(prev, w) ==
    IF w > 0 THEN LastK(prev, w) ELSE IF w = 0 THEN prev ELSE DropFirst(prev, -w)

\* prev_raw[-decimation_N+1 if decimation_N>1 else 0:]
raw_slice(prev_raw, n) == IF n > 1 THEN LastK(prev_raw, n - 1) ELSE prev_raw

update_runtime_config(payload) ==
    LET w == IF Has(payload, "pca_window_size")
             THEN payload["pca_window_size"] ELSE LIVE_WINDOW_SIZE
        \* deque(..., maxlen=w) raises ValueError for w < 0, after
        \* LIVE_WINDOW_SIZE was assigned; the handler ends there
        aborted == Has(payload, "pca_window_size") /\ w < 0
        n == Max(1, payload["decimation_N"])
    IN
    /\ adminCalls < MaxAdminCalls
    /\ adminCalls' = adminCalls + 1
    /\ LIVE_WINDOW_SIZE' = w
    /\ IF Has(payload, "pca_window_size") /\ ~aborted
       THEN /\ live_buffer' = DequeNew(window_slice(live_buffer, w), w)
            /\ live_buffer_maxlen' = w
       ELSE UNCHANGED <<live_buffer, live_buffer_maxlen>>
    /\ IF Has(payload, "fault_trigger_consecutive_step") /\ ~aborted
       THEN consecutive_anomalies_required' = payload["fault_trigger_consecutive_step"]
       ELSE UNCHANGED consecutive_anomalies_required
    /\ IF Has(payload, "decimation_N") /\ ~aborted
       THEN /\ decimation_N' = n
            /\ recent_raw_rows' = DequeNew(raw_slice(recent_raw_rows, n), n)
            /\ decimationFixed' = FALSE
       ELSE UNCHANGED <<decimation_N, recent_raw_rows, decimationFixed>>
    /\ IF Has(payload, "llm_min_interval_seconds") /\ ~aborted
       THEN min_llm_interval' = Max(0, payload["llm_min_interval_seconds"])
       ELSE UNCHANGED min_llm_interval
    /\ IF Has(payload, "feature_shift_jaccard_threshold") /\ ~aborted
       THEN feature_shift_jaccard_threshold' = payload["feature_shift_jaccard_threshold"]
       ELSE UNCHANGED feature_shift_jaccard_threshold
    /\ IF Has(payload, "feature_shift_min_interval_seconds") /\ ~aborted
       THEN feature_shift_min_interval_seconds' =
                payload["feature_shift_min_interval_seconds"]
       ELSE UNCHANGED feature_shift_min_interval_seconds
    /\ UNCHANGED <<consecutive_anomalies, last_analysis_result, last_llm_trigger_time,
                   last_llm_top_features, analysis_history, aggregated_count,
                   trackerVars, envVars, dispatchVars, otherVars, rawHist, aggHist, obs,
                   trigLog, timerReset>>

UpdateRuntimeConfig == \E payload \in Payloads : update_runtime_config(payload)

\* anomaly_state_tracker.last_llm_request_time = 0
reset_lmstudio ==
    /\ adminCalls < MaxAdminCalls
    /\ adminCalls' = adminCalls + 1
    /\ last_llm_request_time' = 0
    /\ timerReset' = TRUE
    /\ UNCHANGED <<cfgVars, liveVars, is_analyzing, envVars, dispatchVars, otherVars, rawHist,
                   aggHist, obs, trigLog, decimationFixed>>

\* _aggregated_count after /retrain, had the handler reset it
index_after_retrain_reset(count) == 0

\* _aggregated_count after /retrain: "Don't reset _aggregated_count to
\* maintain time continuity"
index_after_retrain(count) == count

\* POST /retrain (app.py:961-1014): when the training file is good the model
\* is refitted (the detector stays an opaque verdict), the window is cleared
\* and the consecutive counter reset; otherwise HTTP 400 and no change
retrain_pca(training_ok) ==
    /\ adminCalls < MaxAdminCalls
    /\ adminCalls' = adminCalls + 1
    /\ IF training_ok
       THEN /\ live_buffer' = <<>>
            /\ consecutive_anomalies' = 0
            /\ aggregated_count' = index_after_retrain(aggregated_count)
       ELSE UNCHANGED <<live_buffer, consecutive_anomalies, aggregated_count>>
    /\ UNCHANGED <<cfgVars, last_analysis_result, last_llm_trigger_time,
                   last_llm_top_features, analysis_history, live_buffer_maxlen,
                   recent_raw_rows, trackerVars, envVars, dispatchVars, otherVars,
                   rawHist, aggHist, obs, trigLog, decimationFixed, timerReset>>

\* the wall clock read by time.time() advances
Tick ==
    /\ clock < Epoch + MaxTicks
    /\ clock' = clock + 1
    /\ UNCHANGED <<cfgVars, liveVars, trackerVars, tasks, ack, dispatchVars, otherVars, histVars>>

(***************************************************************************)
(* IndependentModelManager (independent_llm_manager.py): the per-backend   *)
(* state machine behind POST /independent/{model_name}                     *)
(***************************************************************************)
\* the manager after IndependentModelManager.__init__; is_displaying is
\* False, True or the string "frozen", here the strings "False", "True" and
\* "frozen"; result_timestamp None is 0
ManagerAfterInit(model_name) ==
    [model_name |-> model_name, is_analyzing |-> FALSE, is_displaying |-> "False",
     last_analysis_time |-> 0, has_result |-> FALSE, result_timestamp |-> 0]

\* no reply of analyze_fault yet
NoReply == [status |-> "none", can_retry_after |-> 0]

\* Python truthiness of is_displaying: True and "frozen" are truthy
Truthy(is_displaying) == is_displaying # "False"

\* can_accept_request, had it looked at is_analyzing only
can_accept_request_ignoring_display(m) == ~m.is_analyzing

\* return not (self.is_analyzing or self.is_displaying)
can_accept_request(m) == ~(m.is_analyzing \/ Truthy(m.is_displaying))

\* _get_retry_time at time now
get_retry_time(m, now) ==
    IF m.is_analyzing THEN 0
    ELSE IF Truthy(m.is_displaying) /\ m.result_timestamp # 0
         THEN Max(0, DisplayDuration - (now - m.result_timestamp))
         ELSE 0

\* the backend call of analyze_fault for this manager's model
manager_query(model_name, script) ==
    CASE model_name = "lmstudio" -> query_lmstudio(script)
      [] model_name = "anthropic" -> query_claude(script)
      [] model_name = "gemini" -> query_gemini(script)

\* analyze_fault up to its await: the busy reply, or is_analyzing = True
AnalyzeFaultCall ==
    /\ manager_pc = "idle" \/ ~can_accept_request(manager)
    /\ manager_op' = "analyze_fault"
    /\ IF ~can_accept_request(manager)
       THEN /\ manager_reply' = [status |-> "busy",
                                 can_retry_after |-> get_retry_time(manager, clock)]
            /\ UNCHANGED <<manager, manager_pc>>
       ELSE /\ manager' = [manager EXCEPT !.is_analyzing = TRUE]
            /\ manager_pc' = "awaiting"
            /\ manager_reply' = NoReply
    /\ UNCHANGED <<cfgVars, liveVars, trackerVars, envVars, dispatchVars, histVars, besideManager,
                   display_timers>>

\* analyze_fault from the return of the backend call: the result is shown
\* and a display timer is started, or the exception is reported
AnalyzeFaultReturn(script) ==
    LET r == manager_query(manager.model_name, script) IN
    /\ manager_pc = "awaiting"
    /\ manager_pc' = "idle"
    /\ manager_op' = "analyze_fault_return"
    /\ IF r.raised
       THEN /\ manager' = [manager EXCEPT !.is_analyzing = FALSE]
            /\ manager_reply' = [status |-> "error", can_retry_after |-> 0]
            /\ UNCHANGED display_timers
       ELSE /\ manager' = [manager EXCEPT !.has_result = TRUE,
                                          !.result_timestamp = clock,
                                          !.is_analyzing = FALSE,
                                          !.is_displaying = "True"]
            /\ display_timers' = display_timers \cup {clock + DisplayDuration}
            /\ manager_reply' = [status |-> "success", can_retry_after |-> 0]
    /\ UNCHANGED <<cfgVars, liveVars, trackerVars, envVars, dispatchVars, histVars,
                   besideManager>>

\* _display_timer after its sleep of display_duration seconds
display_timer(deadline) ==
    /\ deadline \in display_timers
    /\ clock >= deadline
    /\ display_timers' = display_timers \ {deadline}
    /\ manager' = [manager EXCEPT !.is_displaying = "False",
                                  !.last_analysis_time = clock]
    /\ manager_op' = "display_timer"
    /\ UNCHANGED <<cfgVars, liveVars, trackerVars, envVars, dispatchVars, histVars, besideManager,
                   manager_pc, manager_reply>>

\* if self.is_displaying: self.is_displaying = "frozen"
freeze_display ==
    /\ manager' = IF Truthy(manager.is_displaying)
                  THEN [manager EXCEPT !.is_displaying = "frozen"]
                  ELSE manager
    /\ manager_op' = "freeze_display"
    /\ UNCHANGED <<cfgVars, liveVars, trackerVars, envVars, dispatchVars, histVars, besideManager,
                   display_timers, manager_pc, manager_reply>>

\* if self.is_displaying == "frozen": back to False
unfreeze_display ==
    /\ manager' = IF manager.is_displaying = "frozen"
                  THEN [manager EXCEPT !.is_displaying = "False",
                                       !.last_analysis_time = clock]
                  ELSE manager
    /\ manager_op' = "unfreeze_display"
    /\ UNCHANGED <<cfgVars, liveVars, trackerVars, envVars, dispatchVars, histVars, besideManager,
                   display_timers, manager_pc, manager_reply>>

\* the automatic cycle stores a successful result in the manager
\* (app.py:727-730): current_result and result_timestamp only
AutoResultUpdate ==
    /\ manager' = [manager EXCEPT !.has_result = TRUE, !.result_timestamp = clock]
    /\ manager_op' = "auto_result"
    /\ UNCHANGED <<cfgVars, liveVars, trackerVars, envVars, dispatchVars, histVars, besideManager,
                   display_timers, manager_pc, manager_reply>>

\* the wall clock advances while the manager is in use
ManagerTick ==
    /\ clock < Epoch + MaxManagerTicks
    /\ clock' = clock + 1
    /\ manager_op' = "tick"
    /\ UNCHANGED <<cfgVars, liveVars, trackerVars, tasks, ack, dispatchVars, histVars, besideManager,
                   manager, display_timers, manager_pc, manager_reply>>

InitManagerOf(model_name) ==
    /\ manager = ManagerAfterInit(model_name)
    /\ display_timers = {}
    /\ manager_pc = "idle"
    /\ manager_reply = NoReply
    /\ manager_op = "none"

(***************************************************************************)
(* IndependentLLMSystem (independent_llm_manager.py:197-243): one manager  *)
(* per enabled model, behind POST /independent/{model_name}[/freeze]       *)
(***************************************************************************)
\* IndependentLLMSystem.__init__: a manager for each of client.enabled_models
SystemAfterInit(enabled) == [m \in enabled |-> ManagerAfterInit(m)]

\* analyze_fault's acceptance, had the manager not marked itself analyzing
accepted_unmarked(m) == m

\* self.is_analyzing = True (independent_llm_manager.py:88)
accepted(m) == [m EXCEPT !.is_analyzing = TRUE]

\* the except branch, had it left the manager analyzing
after_error_still_analyzing(m) == m

\* except Exception: self.is_analyzing = False
after_error(m) == [m EXCEPT !.is_analyzing = FALSE]

\* current_result, result_timestamp, is_analyzing = False, is_displaying = True
after_success(m, now) ==
    [m EXCEPT !.has_result = TRUE, !.result_timestamp = now,
              !.is_analyzing = FALSE, !.is_displaying = "True"]

\* analyze_with_model up to the await inside analyze_fault: an unknown model
\* is an error, a busy manager refuses, an idle one starts analyzing
analyze_with_model(model_name) ==
    /\ system_op' = [op |-> "analyze_fault", model_name |-> model_name]
    /\ IF model_name \notin DOMAIN managers
       THEN /\ system_reply' = [status |-> "error", can_retry_after |-> 0]
            /\ UNCHANGED <<managers, analyses_in_flight, analyses_accepted>>
       ELSE IF ~can_accept_request(managers[model_name])
       THEN /\ system_reply' =
                   [status |-> "busy",
                    can_retry_after |-> get_retry_time(managers[model_name], clock)]
            /\ UNCHANGED <<managers, analyses_in_flight, analyses_accepted>>
       ELSE /\ analyses_accepted < MaxAnalyses
            /\ managers' = [managers EXCEPT ![model_name] = accepted(@)]
            /\ analyses_in_flight' = [analyses_in_flight EXCEPT ![model_name] = @ + 1]
            /\ analyses_accepted' = analyses_accepted + 1
            /\ system_reply' = NoReply
    /\ UNCHANGED <<besideSystem, envVars, system_timers>>

\* analyze_fault from the return of the backend call, for one of the
\* coroutines awaiting model_name's backend
analyze_fault_return(model_name, script) ==
    LET r == manager_query(model_name, script) IN
    /\ model_name \in DOMAIN managers
    /\ analyses_in_flight[model_name] > 0
    /\ analyses_in_flight' = [analyses_in_flight EXCEPT ![model_name] = @ - 1]
    /\ system_op' = [op |-> "analyze_fault_return", model_name |-> model_name]
    /\ IF r.raised
       THEN /\ managers' = [managers EXCEPT ![model_name] = after_error(@)]
            /\ system_reply' = [status |-> "error", can_retry_after |-> 0]
            /\ UNCHANGED system_timers
       ELSE /\ managers' = [managers EXCEPT ![model_name] = after_success(@, clock)]
            /\ system_timers' = [system_timers EXCEPT
                                    ![model_name] = Append(@, clock + DisplayDuration)]
            /\ system_reply' = [status |-> "success", can_retry_after |-> 0]
    /\ UNCHANGED <<besideSystem, envVars, analyses_accepted>>

\* _display_timer, had it left the manager as it found it
after_display_timer_idle(m, now) == m

\* _display_timer after its sleep: is_displaying = False, whatever it was,
\* and last_analysis_time = time.time()
after_display_timer(m, now) ==
    [m EXCEPT !.is_displaying = "False", !.last_analysis_time = now]

\* s without its i-th element
RemoveAt(s, i) == SubSeq(s, 1, i - 1) \o SubSeq(s, i + 1, Len(s))

\* the i-th pending _display_timer of model_name's manager, after its sleep
system_display_timer(model_name, i) ==
    /\ model_name \in DOMAIN managers
    /\ i \in 1..Len(system_timers[model_name])
    /\ clock >= system_timers[model_name][i]
    /\ system_timers' = [system_timers EXCEPT ![model_name] = RemoveAt(@, i)]
    /\ managers' = [managers EXCEPT ![model_name] = after_display_timer(@, clock)]
    /\ system_op' = [op |-> "display_timer", model_name |-> model_name]
    /\ UNCHANGED <<besideSystem, envVars, analyses_in_flight, analyses_accepted,
                   system_reply>>

\* freeze_model_display: nothing for an unknown model
freeze_model_display(model_name) ==
    /\ managers' = IF model_name \in DOMAIN managers
                      /\ Truthy(managers[model_name].is_displaying)
                   THEN [managers EXCEPT ![model_name].is_displaying = "frozen"]
                   ELSE managers
    /\ system_op' = [op |-> "freeze_display", model_name |-> model_name]
    /\ UNCHANGED <<besideSystem, envVars, system_timers, analyses_in_flight,
                   analyses_accepted, system_reply>>

\* unfreeze_model_display: nothing for an unknown model
unfreeze_model_display(model_name) ==
    /\ managers' = IF model_name \in DOMAIN managers
                      /\ managers[model_name].is_displaying = "frozen"
                   THEN [managers EXCEPT ![model_name].is_displaying = "False",
                                         ![model_name].last_analysis_time = clock]
                   ELSE managers
    /\ system_op' = [op |-> "unfreeze_display", model_name |-> model_name]
    /\ UNCHANGED <<besideSystem, envVars, system_timers, analyses_in_flight,
                   analyses_accepted, system_reply>>

\* the wall clock advances; it keeps advancing while a display timer of
\* some manager is still asleep
SystemTick ==
    /\ \/ clock < Epoch + MaxSystemTicks
       \/ \E m \in DOMAIN system_timers :
              \E i \in 1..Len(system_timers[m]) : system_timers[m][i] > clock
    /\ clock' = clock + 1
    /\ system_op' = [op |-> "tick", model_name |-> "all"]
    /\ UNCHANGED <<besideSystem, tasks, ack, managers, system_timers,
                   analyses_in_flight, analyses_accepted, system_reply>>

InitSystemOf(enabled) ==
    /\ managers = SystemAfterInit(enabled)
    /\ system_timers = [m \in enabled |-> <<>>]
    /\ analyses_in_flight = [m \in enabled |-> 0]
    /\ analyses_accepted = 0
    /\ system_reply = NoReply
    /\ system_op = [op |-> "none", model_name |-> "all"]

(***************************************************************************)
(* AnomalyStateTracker.has_state_changed behind POST /check_anomaly_change *)
(* (app.py:136-222, 1673-1716)                                             *)
(***************************************************************************)
\* request.data of /check_anomaly_change: per feature, the list of values
CheckRequests ==
    { [f \in {"T"} |-> <<2>>],
      [f \in {"T"} |-> <<2, 2>>],
      [f \in {"T"} |-> <<0, 2>>],
      [f \in {"T", "P"} |-> <<2>>],
      [f \in {"T", "P"} |-> IF f = "T" THEN <<2>> ELSE <<>>] }

\* the features of the request whose list of values is not empty
anomaly_features(data) == {f \in DOMAIN data : Len(data[f]) > 0}

RECURSIVE SeqMin(_)
SeqMin(s) == IF Len(s) = 1 THEN s[1]
             ELSE IF s[1] <= SeqMin(Tail(s)) THEN s[1] ELSE SeqMin(Tail(s))

RECURSIVE SeqMax(_)
SeqMax(s) == IF Len(s) = 1 THEN s[1] ELSE Max(s[1], SeqMax(Tail(s)))

\* mean, min and max of the last five values; the mean in units of 1/60, in
\* which the mean of up to five integers is exact, so that round(., 4)
\* identifies no two of them
data_summary(values) ==
    LET \* values[-5:]
        recent == IF Len(values) >= 5
                  THEN SubSeq(values, Len(values) - 4, Len(values)) ELSE values
    IN  [mean |-> (60 * SumSeq(recent)) \div Len(recent),
         min |-> SeqMin(recent), max |-> SeqMax(recent)]

\* _compute_state_hash: the digest of the sorted features and of the summary
\* of each feature's data, here that pair itself
compute_state_hash(features, data) ==
    <<features, [f \in features |-> data_summary(data[f])]>>

\* last_state_hash is None
NoHash == <<>>

\* the verdict on an unchanged state (app.py:217-222): False on both sides
\* of check_interval
unchanged_verdict(time_since_last) == FALSE

\* has_state_changed as called by check_anomaly_change
has_state_changed(data) ==
    LET features == anomaly_features(data)
        current_hash == compute_state_hash(features, data)
        time_since_last == clock - last_check_time
    IN
    /\ checks_done < MaxChecks
    /\ checks_done' = checks_done + 1
    /\ IF last_state_hash = NoHash
       THEN /\ last_state_hash' = current_hash
            /\ last_check_time' = clock
            /\ change_reply' = [has_changed |-> TRUE, reason |-> "first",
                                hash |-> current_hash]
       ELSE IF current_hash # last_state_hash
       THEN /\ last_state_hash' = current_hash
            /\ last_check_time' = clock
            /\ change_reply' = [has_changed |-> TRUE, reason |-> "changed",
                                hash |-> current_hash]
       ELSE /\ change_reply' = [has_changed |-> unchanged_verdict(time_since_last),
                                reason |-> IF time_since_last >= CheckInterval
                                           THEN "no_change_interval_passed"
                                           ELSE "no_change",
                                hash |-> current_hash]
            /\ UNCHANGED <<last_state_hash, last_check_time>>
    /\ UNCHANGED <<besideChange, envVars>>

\* the wall clock advances between two checks
CheckTick ==
    /\ clock < Epoch + MaxCheckTicks
    /\ clock' = clock + 1
    /\ UNCHANGED <<besideChange, tasks, ack, changeVars>>

InitChange ==
    /\ last_state_hash = NoHash
    /\ last_check_time = 0
    /\ change_reply = [has_changed |-> FALSE, reason |-> "none", hash |-> NoHash]
    /\ checks_done = 0

(***************************************************************************)
(* TEPDataBridge: the simulation loop and its control                      *)
(* (unified_console.py:602-661, 678-740, 796-799)                          *)
(***************************************************************************)
\* if self.tep_running: return False, "TEP simulation already running"
start_refused(running) == running

\* start_tep_simulation: refused while tep_running, else the flag is set and
\* a new loop thread started, which is about to test `while self.tep_running`
start_tep_simulation ==
    /\ IF start_refused(tep_running)
       THEN /\ sim_reply' = [ok |-> FALSE, message |-> "already running"]
            /\ UNCHANGED <<tep_running, sim_threads>>
       ELSE /\ Len(sim_threads) < MaxLoopThreads
            /\ tep_running' = TRUE
            /\ sim_threads' = Append(sim_threads, "check")
            /\ sim_reply' = [ok |-> TRUE, message |-> "started"]
    /\ UNCHANGED <<besideSim, restart_pc>>

\* stop_tep_simulation: self.tep_running = False
stop_tep_simulation ==
    /\ tep_running' = FALSE
    /\ sim_reply' = [ok |-> TRUE, message |-> "stopped"]
    /\ UNCHANGED <<besideSim, sim_threads, restart_pc>>

\* restart_tep_simulation up to its sleep and its pre-run: the flag is
\* cleared
RestartBegin ==
    /\ restart_pc = "idle"
    /\ Len(sim_threads) < MaxLoopThreads
    /\ restart_pc' = "resetting"
    /\ tep_running' = FALSE
    /\ UNCHANGED <<besideSim, sim_threads, sim_reply>>

\* restart_tep_simulation after the pre-run: a new loop thread is started,
\* or the failure of the pre-run is reported
RestartEnd(prerun_ok) ==
    /\ restart_pc = "resetting"
    /\ restart_pc' = "idle"
    /\ IF prerun_ok
       THEN /\ tep_running' = TRUE
            /\ sim_threads' = Append(sim_threads, "check")
            /\ sim_reply' = [ok |-> TRUE, message |-> "restarted"]
       ELSE /\ sim_reply' = [ok |-> FALSE, message |-> "no steady state"]
            /\ UNCHANGED <<tep_running, sim_threads>>
    /\ UNCHANGED besideSim

\* `while self.tep_running:` in thread i: the body is entered or the loop
\* ends
LoopCheck(i) ==
    /\ i \in 1..Len(sim_threads)
    /\ sim_threads[i] = "check"
    /\ sim_threads' = [sim_threads EXCEPT ![i] = IF tep_running THEN "step" ELSE "exited"]
    /\ UNCHANGED <<besideSim, tep_running, restart_pc, sim_reply>>

\* the body of the loop in thread i: a row is simulated, saved and posted to
\* /ingest; then the thread sleeps, or the auto-shutdown signal ends the loop
LoopStep(i, auto_shutdown) ==
    /\ i \in 1..Len(sim_threads)
    /\ sim_threads[i] = "step"
    /\ IF auto_shutdown
       THEN /\ tep_running' = FALSE
            /\ sim_threads' = [sim_threads EXCEPT ![i] = "exited"]
       ELSE /\ sim_threads' = [sim_threads EXCEPT ![i] = "sleeping"]
            /\ UNCHANGED tep_running
    /\ UNCHANGED <<besideSim, restart_pc, sim_reply>>

\* time.sleep(self.step_interval_seconds) in thread i is over
LoopWake(i) ==
    /\ i \in 1..Len(sim_threads)
    /\ sim_threads[i] = "sleeping"
    /\ sim_threads' = [sim_threads EXCEPT ![i] = "check"]
    /\ UNCHANGED <<besideSim, tep_running, restart_pc, sim_reply>>

InitSim ==
    /\ tep_running = FALSE
    /\ sim_threads = <<>>
    /\ restart_pc = "idle"
    /\ sim_reply = [ok |-> FALSE, message |-> "none"]

(***************************************************************************)
(* GET /stream (app.py:813-846): each subscriber runs event_generator      *)
(***************************************************************************)
\* the connections that can subscribe to /stream
Subscribers == {"s1", "s2"}

\* the emission test, had it been dropped
row_changed_always(current_time_val, last) == TRUE

\* if current_time_val != last_time_seen
row_changed(current_time_val, last) == current_time_val # last

\* a client connects: event_generator starts with last_time_seen = None
\* (here 0; the rows' time starts at 1)
StreamConnect(c) ==
    /\ stream_pc[c] = "off"
    /\ stream_pc' = [stream_pc EXCEPT ![c] = "check"]
    /\ last_time_seen' = [last_time_seen EXCEPT ![c] = 0]
    /\ connected_at' = [connected_at EXCEPT ![c] = aggregated_count]
    /\ UNCHANGED <<cfgVars, liveVars, trackerVars, envVars, dispatchVars, histVars,
                   besideStream, stream_events>>

\* one pass of the loop up to its sleep: the latest row of live_buffer is
\* emitted if its time differs from last_time_seen
StreamCheck(c) ==
    /\ stream_pc[c] = "check"
    /\ stream_pc' = [stream_pc EXCEPT ![c] = "sleeping"]
    /\ IF /\ live_buffer # <<>>
          /\ row_changed(live_buffer[Len(live_buffer)].time, last_time_seen[c])
       THEN LET row == live_buffer[Len(live_buffer)] IN
            /\ stream_events' =
                   [stream_events EXCEPT ![c] = Append(@, [kind |-> "row", time |-> row.time])]
            /\ last_time_seen' = [last_time_seen EXCEPT ![c] = row.time]
       ELSE UNCHANGED <<stream_events, last_time_seen>>
    /\ UNCHANGED <<cfgVars, liveVars, trackerVars, envVars, dispatchVars, histVars,
                   besideStream, connected_at>>

\* await asyncio.sleep(1.0) is over
StreamWake(c) ==
    /\ stream_pc[c] = "sleeping"
    /\ stream_pc' = [stream_pc EXCEPT ![c] = "check"]
    /\ UNCHANGED <<cfgVars, liveVars, trackerVars, envVars, dispatchVars, histVars,
                   besideStream, last_time_seen, stream_events, connected_at>>

InitStreamOff ==
    /\ stream_pc = [c \in Subscribers |-> "off"]
    /\ last_time_seen = [c \in Subscribers |-> 0]
    /\ stream_events = [c \in Subscribers |-> <<>>]
    /\ connected_at = [c \in Subscribers |-> 0]

(***************************************************************************)
(* The console's SSE broadcast (unified_console.py:1300-1320, 1365-1410)   *)
(***************************************************************************)
\* the browser connections to the console's /stream
Clients == {"c1", "c2"}

\* put_nowait raising queue.Full, had the queue been unbounded
queue_full_never(q) == FALSE

\* put_nowait raises queue.Full when the queue holds maxsize items
queue_full(q) == Len(q) >= QueueMaxSize

\* list.remove(x): the first occurrence is removed, ValueError (ignored by
\* the callers) when there is none
RECURSIVE ListRemove(_, _)
ListRemove(list, x) ==
    IF list = <<>> THEN <<>>
    ELSE IF Head(list) = x THEN Tail(list)
    ELSE <<Head(list)>> \o ListRemove(Tail(list), x)

\* the queues of a list of clients that broadcast_sse found full
RECURSIVE DeadQueues(_)
DeadQueues(list) ==
    IF list = <<>> THEN <<>>
    ELSE IF queue_full(client_queue[Head(list)])
         THEN <<Head(list)>> \o DeadQueues(Tail(list))
         ELSE DeadQueues(Tail(list))

RECURSIVE RemoveAll(_, _)
RemoveAll(list, dead) ==
    IF dead = <<>> THEN list ELSE RemoveAll(ListRemove(list, Head(dead)), Tail(dead))

\* generate() up to its first yield: the client's queue is created and
\* registered, and the 'connected' event is sent
ConsoleConnect(c) ==
    /\ console_pc[c] = "off"
    /\ console_pc' = [console_pc EXCEPT ![c] = "waiting"]
    /\ client_queue' = [client_queue EXCEPT ![c] = <<>>]
    /\ sse_queues' = Append(sse_queues, c)
    /\ console_out' = [console_out EXCEPT ![c] = <<[kind |-> "connected", id |-> 0]>>]
    /\ UNCHANGED <<besideBroadcast, events_sent>>

\* broadcast_sse: under the lock, the event is offered to every registered
\* queue without waiting, and the queues found full are removed
broadcast_sse ==
    /\ events_sent < MaxEvents
    /\ events_sent' = events_sent + 1
    /\ client_queue' =
           [c \in Clients |->
               IF (\E i \in 1..Len(sse_queues) : sse_queues[i] = c)
                  /\ ~queue_full(client_queue[c])
               THEN Append(client_queue[c], events_sent + 1)
               ELSE client_queue[c]]
    /\ sse_queues' = RemoveAll(sse_queues, DeadQueues(sse_queues))
    /\ UNCHANGED <<besideBroadcast, console_pc, console_out>>

\* client_queue.get(timeout=30) returns an event, which is sent to the client
ConsoleGet(c) ==
    /\ console_pc[c] = "waiting"
    /\ client_queue[c] # <<>>
    /\ console_out' = [console_out EXCEPT
                          ![c] = Append(@, [kind |-> "event", id |-> Head(client_queue[c])])]
    /\ client_queue' = [client_queue EXCEPT ![c] = Tail(@)]
    /\ UNCHANGED <<besideBroadcast, sse_queues, console_pc, events_sent>>

\* client_queue.get(timeout=30) raises queue.Empty: a heartbeat is sent
\* (console_out keeps one heartbeat for a run of heartbeats)
ConsoleHeartbeat(c) ==
    /\ console_pc[c] = "waiting"
    /\ client_queue[c] = <<>>
    /\ console_out' = [console_out EXCEPT
                          ![c] = IF Last(@).kind = "heartbeat"
                                 THEN @
                                 ELSE Append(@, [kind |-> "heartbeat", id |-> 0])]
    /\ UNCHANGED <<besideBroadcast, sse_queues, client_queue, console_pc, events_sent>>

\* the client goes away: GeneratorExit, and the finally clause removes the
\* queue if it is still registered
ConsoleDisconnect(c) ==
    /\ console_pc[c] = "waiting"
    /\ console_pc' = [console_pc EXCEPT ![c] = "closed"]
    /\ sse_queues' = ListRemove(sse_queues, c)
    /\ UNCHANGED <<besideBroadcast, client_queue, console_out, events_sent>>

InitBroadcastOff ==
    /\ sse_queues = <<>>
    /\ client_queue = [c \in Clients |-> <<>>]
    /\ console_pc = [c \in Clients |-> "off"]
    /\ console_out = [c \in Clients |-> <<>>]
    /\ events_sent = 0

(***************************************************************************)
(* POST /explain (app.py:1724-1856)                                        *)
(***************************************************************************)
\* the id of a bundle: int(time.time() * 1000), the wall clock read in
\* milliseconds
bundle_id(ms) == ms

\* /explain up to its await of get_analysis_from_all_models
ExplainCall ==
    /\ Len(bundleLog) + explains_pending < MaxExplains
    /\ explains_pending' = explains_pending + 1
    /\ UNCHANGED <<besideExplain, liveVars, clock_ms, bundleLog>>

\* /explain from the return of get_analysis_from_all_models: the snapshot is
\* given its id and appended to _analysis_history
ExplainFinish(sc) ==
    LET active == get_active_models(enabled_models, runtime_enabled_models)
        formatted == format_comparative_results(get_analysis_from_all_models(active, sc))
        snap == [id |-> bundle_id(clock_ms), analyses |-> formatted]
    IN
    /\ explains_pending > 0
    /\ explains_pending' = explains_pending - 1
    /\ analysis_history' = DequeAppend(analysis_history, snap, HistoryMaxLen)
    /\ bundleLog' = Append(bundleLog, snap.id)
    /\ UNCHANGED <<besideExplain, consecutive_anomalies, last_analysis_result,
                   last_llm_trigger_time, last_llm_top_features, live_buffer,
                   live_buffer_maxlen, recent_raw_rows, aggregated_count, clock_ms>>

\* a millisecond passes
MsTick ==
    /\ clock_ms < Epoch * 1000 + MaxMsTicks
    /\ clock_ms' = clock_ms + 1
    /\ UNCHANGED <<besideExplain, liveVars, explains_pending, bundleLog>>

InitExplain ==
    /\ explains_pending = 0
    /\ clock_ms = Epoch * 1000
    /\ bundleLog = <<>>

\* the components beside the ingest path, after module import
InitOther ==
    /\ InitManagerOf("lmstudio")
    /\ InitStreamOff
    /\ InitBroadcastOff
    /\ InitExplain
    /\ InitSystemOf(enabled_models)
    /\ InitChange
    /\ InitSim
    /\ toggle_reply = [status |-> "none", model |-> "none", active_models |-> {}]

(***************************************************************************)
(* The service: state after module import, and its steps                   *)
(***************************************************************************)
InitLive ==
    /\ LIVE_WINDOW_SIZE = InitWindow
    /\ consecutive_anomalies_required = 1
    /\ decimation_N \in 1..MaxInitDecimation
    /\ min_llm_interval = InitMinInterval
    /\ feature_shift_jaccard_threshold = JaccardThresholdPct
    /\ feature_shift_min_interval_seconds = FeatureShiftMinInterval
    /\ consecutive_anomalies = 0
    /\ last_analysis_result = <<>>
    /\ last_llm_trigger_time = 0
    /\ last_llm_top_features = {}
    /\ analysis_history = <<>>
    /\ live_buffer = <<>>
    /\ live_buffer_maxlen = InitWindow
    /\ recent_raw_rows = <<>>
    /\ aggregated_count = 0
    /\ is_analyzing = FALSE
    /\ last_llm_request_time = 0
    /\ clock = Epoch
    /\ tasks = <<>>
    /\ ack = NoAck
    /\ rawHist = <<>>
    /\ aggHist = <<>>
    /\ obs = NoObs
    /\ trigLog = <<>>
    /\ decimationFixed = TRUE
    /\ timerReset = FALSE
    /\ adminCalls = 0

\* MultiLLMClient.__init__ with every model enabled in config.json
Init ==
    /\ InitLive
    /\ enabled_models = Backends
    /\ runtime_enabled_models = {}
    /\ scripts = [m \in Backends |-> <<"ok", "ok">>]
    /\ query_results = <<>>
    /\ dispatch_pc = "idle"
    /\ dispatch_return = NoReturn
    /\ InitOther

Next ==
    \/ Ingest
    \/ BgStep
    \/ UpdateRuntimeConfig
    \/ reset_lmstudio
    \/ Tick

Spec == Init /\ [][Next]_vars

(***************************************************************************)
(* One call of get_analysis_from_all_models, backend by backend            *)
(* (multi_llm_client.py:213-288)                                           *)
(***************************************************************************)
\* active_models empty: the early return; otherwise the query_model
\* coroutines are created and gathered
DispatchStart ==
    LET active == get_active_models(enabled_models, runtime_enabled_models) IN
    /\ dispatch_pc = "idle"
    /\ IF active = {}
       THEN /\ dispatch_pc' = "returned"
            /\ dispatch_return' = get_analysis_from_all_models(active, scripts)
       ELSE /\ dispatch_pc' = "gathering"
            /\ dispatch_return' = [NoReturn EXCEPT !.models_queried = active]
    /\ UNCHANGED <<cfgVars, liveVars, trackerVars, envVars, enabled_models,
                   runtime_enabled_models, scripts, query_results, histVars, otherVars>>

\* one query_model coroutine runs to its return, in any order with the others
QuerySettle(m) ==
    /\ dispatch_pc = "gathering"
    /\ m \in dispatch_return.models_queried
    /\ m \notin DOMAIN query_results
    /\ query_results' =
           [x \in DOMAIN query_results \cup {m} |->
               IF x = m THEN query_model(m, scripts[m]) ELSE query_results[x]]
    /\ UNCHANGED <<cfgVars, liveVars, trackerVars, envVars, enabled_models,
                   runtime_enabled_models, scripts, dispatch_pc, dispatch_return,
                   histVars, otherVars>>

\* asyncio.gather returns once every coroutine has; the results are collected
DispatchCollect ==
    /\ dispatch_pc = "gathering"
    /\ DOMAIN query_results = dispatch_return.models_queried
    /\ dispatch_pc' = "returned"
    /\ dispatch_return' = [dispatch_return EXCEPT !.results = CollectResults(query_results)]
    /\ UNCHANGED <<cfgVars, liveVars, trackerVars, envVars, enabled_models,
                   runtime_enabled_models, scripts, query_results, histVars, otherVars>>

\* a client with at least one model enabled (load_config refuses none), and
\* backends that behave in any of the scripted ways
InitDispatch ==
    /\ InitLive
    /\ decimation_N = 1
    /\ enabled_models \in (SUBSET Backends) \ {{}}
    /\ runtime_enabled_models = {}
    /\ scripts \in [Backends -> Scripts]
    /\ query_results = <<>>
    /\ dispatch_pc = "idle"
    /\ dispatch_return = NoReturn
    /\ InitOther

NextDispatch ==
    \/ DispatchStart
    \/ \E m \in Backends : QuerySettle(m)
    \/ DispatchCollect

SpecDispatch == InitDispatch /\ [][NextDispatch]_vars

(***************************************************************************)
(* One IndependentModelManager in use                                      *)
(***************************************************************************)
InitManager ==
    /\ InitLive
    /\ decimation_N = 1
    /\ enabled_models = Backends
    /\ runtime_enabled_models = {}
    /\ scripts = [m \in Backends |-> <<"ok", "ok">>]
    /\ query_results = <<>>
    /\ dispatch_pc = "idle"
    /\ dispatch_return = NoReturn
    /\ \E model_name \in Backends : InitManagerOf(model_name)
    /\ InitStreamOff
    /\ InitBroadcastOff
    /\ InitExplain
    /\ InitSystemOf(enabled_models)
    /\ InitChange
    /\ InitSim
    /\ toggle_reply = [status |-> "none", model |-> "none", active_models |-> {}]

NextManager ==
    \/ AnalyzeFaultCall
    \/ \E script \in Scripts : AnalyzeFaultReturn(script)
    \/ \E deadline \in display_timers : display_timer(deadline)
    \/ freeze_display
    \/ unfreeze_display
    \/ AutoResultUpdate
    \/ ManagerTick

SpecManager == InitManager /\ [][NextManager]_vars

(***************************************************************************)
(* /ingest with subscribers of /stream                                     *)
(***************************************************************************)
\* feature-complete rows of a normal process arrive at /ingest
IngestNormal == ingest_live_point(0, TRUE, {"T", "P"})

NextStream ==
    \/ IngestNormal
    \/ \E c \in Subscribers : StreamConnect(c)
    \/ \E c \in Subscribers : StreamCheck(c)
    \/ \E c \in Subscribers : StreamWake(c)

\* the service started with the default decimation_N = 1 (app.py:291)
InitDecimationOff == Init /\ decimation_N = 1

\* the event loop runs every generator that is ready: a connected
\* subscriber's loop keeps turning
SpecStream ==
    /\ InitDecimationOff
    /\ [][NextStream]_vars
    /\ \A c \in Subscribers : WF_vars(StreamCheck(c)) /\ WF_vars(StreamWake(c))

(***************************************************************************)
(* The console broadcasting to its /stream clients                         *)
(***************************************************************************)
NextBroadcast ==
    \/ \E c \in Clients : ConsoleConnect(c)
    \/ broadcast_sse
    \/ \E c \in Clients : ConsoleGet(c)
    \/ \E c \in Clients : ConsoleHeartbeat(c)
    \/ \E c \in Clients : ConsoleDisconnect(c)

SpecBroadcast == InitDecimationOff /\ [][NextBroadcast]_vars

(***************************************************************************)
(* /ingest with the operator's /config/runtime and /retrain                *)
(***************************************************************************)
NextIndex ==
    \/ Ingest
    \/ UpdateRuntimeConfig
    \/ \E training_ok \in BOOLEAN : retrain_pca(training_ok)

SpecIndex == Init /\ [][NextIndex]_vars

(***************************************************************************)
(* The analysis history: automatic cycles and /explain requests            *)
(***************************************************************************)
\* feature-complete anomalous rows arrive at /ingest
IngestAnomalous == ingest_live_point(2, TRUE, {"T", "P"})

NextHistory ==
    \/ IngestAnomalous
    \/ BgStep
    \/ ExplainCall
    \/ \E sc \in CycleScripts : ExplainFinish(sc)
    \/ MsTick

SpecHistory == InitDecimationOff /\ [][NextHistory]_vars

(***************************************************************************)
(* The independent system: manual analyses, freezes and display timers     *)
(***************************************************************************)
\* config.json enables two of the backends; the third has no manager
InitSystem ==
    /\ InitLive
    /\ decimation_N = 1
    /\ enabled_models = {"lmstudio", "gemini"}
    /\ runtime_enabled_models = {}
    /\ scripts = [m \in Backends |-> <<"ok", "ok">>]
    /\ query_results = <<>>
    /\ dispatch_pc = "idle"
    /\ dispatch_return = NoReturn
    /\ InitOther

\* the backend answers a manual analysis, or fails after its retries
ManagerScripts == {<<"ok", "ok">>, <<"transport", "transport">>}

NextSystem ==
    \/ \E model_name \in Backends : analyze_with_model(model_name)
    \/ \E model_name \in Backends, script \in ManagerScripts :
           analyze_fault_return(model_name, script)
    \/ \E model_name \in Backends, i \in 1..MaxAnalyses :
           system_display_timer(model_name, i)
    \/ \E model_name \in Backends : freeze_model_display(model_name)
    \/ \E model_name \in Backends : unfreeze_model_display(model_name)
    \/ SystemTick

\* the event loop runs a display timer whose sleep is over and completes a
\* backend call that has returned, and time passes
SpecSystem ==
    /\ InitSystem
    /\ [][NextSystem]_vars
    /\ WF_vars(SystemTick)
    /\ \A model_name \in Backends, i \in 1..MaxAnalyses :
           WF_vars(system_display_timer(model_name, i))

(***************************************************************************)
(* The independent system beside the automatic analysis path               *)
(***************************************************************************)
NextIsolation ==
    \/ IngestAnomalous
    \/ BgStep
    \/ \E model_name \in Backends : analyze_with_model(model_name)
    \/ \E model_name \in Backends, script \in ManagerScripts :
           analyze_fault_return(model_name, script)
    \/ \E model_name \in Backends : freeze_model_display(model_name)
    \/ \E model_name \in Backends : unfreeze_model_display(model_name)

SpecIsolation == InitSystem /\ [][NextIsolation]_vars

(***************************************************************************)
(* /check_anomaly_change polled by the frontend                            *)
(***************************************************************************)
NextChange ==
    \/ \E data \in CheckRequests : has_state_changed(data)
    \/ CheckTick

SpecChange == InitDecimationOff /\ [][NextChange]_vars

(***************************************************************************)
(* The console starting, stopping and restarting the simulation            *)
(***************************************************************************)
NextSim ==
    \/ start_tep_simulation
    \/ stop_tep_simulation
    \/ RestartBegin
    \/ \E prerun_ok \in BOOLEAN : RestartEnd(prerun_ok)
    \/ \E i \in 1..MaxLoopThreads : LoopCheck(i)
    \/ \E i \in 1..MaxLoopThreads, auto_shutdown \in BOOLEAN : LoopStep(i, auto_shutdown)
    \/ \E i \in 1..MaxLoopThreads : LoopWake(i)

SpecSim == InitDecimationOff /\ [][NextSim]_vars

(***************************************************************************)
(* The runtime toggles of the models                                       *)
(***************************************************************************)
NextToggle == \E model_name \in ModelNames, on \in BOOLEAN : toggle_model(model_name, on)

SpecToggle == InitDispatch /\ [][NextToggle]_vars

(***************************************************************************)
(* Properties                                                              *)
(***************************************************************************)
\* the top-K feature sets a and b diverge: their Jaccard similarity is below
\* the threshold thr (in percent)
Diverged(a, b, thr) == JaccardPct(a, b) < thr

\* every aggregated row from index i to index j was anomalous
AnomalousThroughout(i, j) ==
    \A k \in i..j : k \in 1..Len(aggHist) => process_data_point(aggHist[k])

\* C1: global single-flight.  At most one background task is inside its
\* call of get_analysis_from_all_models at any moment, and an eligible row
\* that arrives while one is in flight is refused as analyzing_in_progress
\* and creates no task.
C1_GlobalSingleFlight ==
    /\ Cardinality(InFlight) <= 1
    /\ (obs.call = "ingest" /\ obs.eligible /\ obs.dispatching)
           => (~obs.started /\ ack.llm = "analyzing_in_progress")

\* C2: under constant anomalous input, two consecutive automatic triggers
\* are at least min_llm_interval seconds apart, unless the top feature sets
\* of the two triggers diverge.  (Stated in the claim's favour: a pair with
\* /reset_lmstudio called in between is not counted.)
C2_TriggersMinIntervalApart ==
    \A k \in 2..Len(trigLog) :
        LET a == trigLog[k - 1]
            b == trigLog[k]
        IN  (AnomalousThroughout(a.idx, b.idx) /\ ~b.reset)
                => (b.at - a.at >= b.min \/ Diverged(a.top, b.top, b.thr))

C4_DivergenceRetriggers ==
    (obs.call = "ingest" /\ obs.eligible /\ ~obs.in_flight /\ ~obs.can_send
        /\ trigLog # <<>>)
        => IF Diverged(obs.top, Last(trigLog).top, feature_shift_jaccard_threshold)
           THEN obs.started
           ELSE ~obs.started

\* C5: with a decimation size N >= 1 that was never changed, exactly
\* floor(total/N) aggregated rows have been produced from the total
\* feature-complete raw rows, the k-th being the mean (sum over N) of raw
\* rows (k-1)*N+1 .. k*N; and a call on which no aggregated row is due
\* answers 200 'aggregating' with have < need and produces none.
C5_AggregationByDecimation ==
    decimationFixed =>
        /\ Len(aggHist) = Len(rawHist) \div decimation_N
        /\ \A k \in 1..Len(aggHist) :
               /\ aggHist[k].n = decimation_N
               /\ aggHist[k].sum =
                      SumSeq(SubSeq(rawHist, (k - 1) * decimation_N + 1, k * decimation_N))
        /\ (obs.call = "ingest" /\ obs.complete) =>
               IF Len(rawHist) % decimation_N = 0
               THEN obs.aggregated /\ ~ack.aggregating
               ELSE /\ ~obs.aggregated
                    /\ ack.http = 200 /\ ack.aggregating
                    /\ ack.have < ack.need
                    /\ ack.have = Len(rawHist) % decimation_N

\* C5 witness: N = 2 unchanged, three aggregated rows from six raw rows, not
\* all alike
C5_Witness ==
    /\ decimationFixed
    /\ decimation_N = 2
    /\ Len(rawHist) = 6
    /\ Len(aggHist) = 3
    /\ aggHist[1].sum = 2
    /\ aggHist[2].sum = 4
    /\ aggHist[3].sum = 0

\* C6: the sliding window never holds more rows than its capacity
\* LIVE_WINDOW_SIZE (a capacity below zero counted as zero), after any
\* ingests and runtime changes of pca_window_size.
C6_WindowWithinCapacity == Len(live_buffer) <= Max(0, LIVE_WINDOW_SIZE)

\* the kinds of acknowledgment an /ingest call can give
AckKinds(a) ==
    {k \in {"ignored", "aggregating", "not_triggered", "analyzing_in_progress",
            "rate_limited", "triggered"} :
        \/ k = "ignored" /\ a.status = "ignored" /\ a.reason = "missing_features"
        \/ k = "aggregating" /\ a.status = "ok" /\ a.aggregating
        \/ k \notin {"ignored", "aggregating"} /\ a.status = "ok" /\ a.llm = k}

\* C7: every /ingest call is acknowledged without error by exactly one of
\* ignored, aggregating, not_triggered, analyzing_in_progress, rate_limited,
\* triggered; a call that starts an analysis is acknowledged 'triggered'
\* with its top features.
C7_IngestAcknowledged ==
    obs.call = "ingest" =>
        /\ ack.http = 200
        /\ Cardinality(AckKinds(ack)) = 1
        /\ obs.started => (ack.llm = "triggered" /\ ack.top_features = obs.top)

\* C9: every automatic cycle that has ended with all its backend calls
\* settled has appended exactly one snapshot to the analysis history, and no
\* cycle has appended one before it ended.
C9_OneSnapshotPerCycle ==
    \A i \in 1..Len(tasks) :
        /\ (tasks[i].pc = "done" /\ tasks[i].settled) => tasks[i].appended = 1
        /\ tasks[i].pc # "done" => tasks[i].appended = 0

\* the calls a backend's query actually made all failed
AllAttemptsFailed(m, r) == \A k \in 1..r.attempts : scripts[m][k] # "ok"

\* C8: when get_analysis_from_all_models has returned, the result map has
\* exactly one entry per active backend; a backend whose calls all failed
\* (timeout, transport error or empty response) has status "error" and that
\* failure as its reason; every other backend has status "success" with its
\* text, whatever the other backends did.
C8_FailureIsolation ==
    dispatch_pc = "returned" =>
        /\ DOMAIN dispatch_return.results = dispatch_return.models_queried
        /\ \A m \in DOMAIN dispatch_return.results :
               LET r == dispatch_return.results[m] IN
               IF AllAttemptsFailed(m, r)
               THEN r.status = "error" /\ r.reason = scripts[m][r.attempts]
               ELSE r.status = "success" /\ r.analysis = "content"

\* the dispatch of C10: backends a, b, c all active; a's call succeeds, b's
\* exceeds its timeout, c's first call fails in transport and a second
\* would succeed
C10_Scenario(a, b, c) ==
    /\ dispatch_pc = "returned"
    /\ {a, b, c} = Backends
    /\ dispatch_return.models_queried = Backends
    /\ scripts[a][1] = "ok"
    /\ scripts[b][1] = "timeout"
    /\ scripts[c] = <<"transport", "ok">>

C11_AtMostOneRetryNeverOnTimeout ==
    dispatch_pc = "returned" =>
        \A m \in DOMAIN dispatch_return.results :
            LET r == dispatch_return.results[m] IN
            /\ r.attempts \in 1..2
            /\ r.attempts = 2 => scripts[m][1] = "transport"
            /\ \A k \in 1..(r.attempts - 1) : scripts[m][k] # "timeout"

\* C11 witness: a dispatch over all three backends has returned in which
\* lmstudio's call timed out and anthropic's failed in transport; a further
\* call of either would have succeeded
C11_Witness ==
    /\ dispatch_pc = "returned"
    /\ DOMAIN dispatch_return.results = Backends
    /\ scripts["lmstudio"] = <<"timeout", "ok">>
    /\ scripts["anthropic"] = <<"transport", "ok">>
    /\ dispatch_return.results["lmstudio"].status = "error"
    /\ dispatch_return.results["anthropic"].status = "error"


\* the manager is Idle: not analyzing, not displaying, not frozen
ManagerIdle(m) == ~m.is_analyzing /\ m.is_displaying = "False"

C13_FrozenUntilUnfreeze ==
    [][ (manager.is_displaying = "frozen" /\ manager'.is_displaying # "frozen")
            => manager_op' = "unfreeze_display" ]_vars


\* the sequence indices of the rows emitted to subscriber c, in order
EmittedTimes(c) ==
    [i \in 1..Len(stream_events[c]) |-> stream_events[c][i].time]

\* the number of events of subscriber c that carry row index t
TimesEmitted(c, t) ==
    Cardinality({i \in 1..Len(stream_events[c]) :
                    stream_events[c][i].kind = "row" /\ stream_events[c][i].time = t})

\* C14: a row is emitted to a subscriber only when the latest row's index
\* differs from the index last emitted to that subscriber; the indices one
\* subscriber has received are strictly increasing, so none came twice.
C14_EmitOnlyOnChange ==
    /\ [](\A c \in Subscribers :
            \A i, j \in 1..Len(stream_events[c]) :
                i < j => stream_events[c][i].time < stream_events[c][j].time)
    /\ [][ \A c \in Subscribers :
              stream_events'[c] # stream_events[c] =>
                  /\ live_buffer # <<>>
                  /\ Last(live_buffer).time # last_time_seen[c]
                  /\ stream_events'[c] =
                         Append(stream_events[c],
                                [kind |-> "row", time |-> Last(live_buffer).time])
         ]_vars

\* C14 witness: a subscriber has received three rows and has since looked at
\* the unchanged latest row without emitting it again
C14_Witness ==
    /\ Len(stream_events["s1"]) = 3
    /\ stream_pc["s1"] = "sleeping"
    /\ live_buffer # <<>>
    /\ Last(live_buffer).time = last_time_seen["s1"]
    /\ Len(stream_events["s2"]) = 1

\* C15: every aggregated row produced while a subscriber is connected, up to
\* the row the subscriber has last seen, was emitted to it exactly once,
\* whatever the timing of rows and loop passes.
C15_EveryRowExactlyOnce ==
    \A c \in Subscribers :
        stream_pc[c] # "off" =>
            \A t \in (connected_at[c] + 1)..last_time_seen[c] : TimesEmitted(c, t) = 1

\* no further row will arrive
RowsHaveStopped == Len(rawHist) = MaxRaw

\* C16: a connected subscriber to whom no more rows arrive is eventually
\* sent a heartbeat event.
C16_HeartbeatWhileIdle ==
    \A c \in Subscribers :
        (stream_pc[c] # "off" /\ RowsHaveStopped)
            ~> (\E i \in 1..Len(stream_events[c]) : stream_events[c][i].kind = "heartbeat")


\* client c's queue is in the console's subscriber list
Registered(c) == \E i \in 1..Len(sse_queues) : sse_queues[i] = c

\* C17: broadcast_sse never waits for a subscriber: no queue ever holds more
\* than its capacity, a broadcast can be made whatever the state of the
\* queues, and in a broadcast every registered subscriber whose queue has
\* room gets the event and stays registered, while one whose queue is full
\* is removed from the subscriber list.
C17_BroadcastNeverBlocks ==
    /\ [](\A c \in Clients : Len(client_queue[c]) <= QueueMaxSize)
    /\ [](events_sent < MaxEvents => ENABLED broadcast_sse)
    /\ [][ events_sent' # events_sent =>
              \A c \in Clients :
                  IF Registered(c) /\ Len(client_queue[c]) < QueueMaxSize
                  THEN /\ client_queue'[c] = Append(client_queue[c], events_sent')
                       /\ Registered(c)'
                  ELSE /\ client_queue'[c] = client_queue[c]
                       /\ ~Registered(c)'
         ]_vars

\* C17 witness: both clients connected; c1 did not read and was removed
\* with its queue full, and c2 has since been handed the latest event
C17_Witness ==
    /\ console_pc = [c \in Clients |-> "waiting"]
    /\ ~Registered("c1")
    /\ Len(client_queue["c1"]) = QueueMaxSize
    /\ Registered("c2")
    /\ events_sent = QueueMaxSize + 1
    /\ client_queue["c2"] # <<>>
    /\ Last(client_queue["c2"]) = events_sent


\* C18: an /ingest call whose row lacks a required feature answers
\* 'ignored' with reason 'missing_features' and changes nothing: the raw-row
\* accumulator, the window, the consecutive-anomaly counter, the sequence
\* index, the in-flight flag, the request time and the tasks stay as they
\* were.
C18_MissingFeaturesChangeNothing ==
    [][ (obs'.call = "ingest" /\ ~obs'.complete /\ <<obs, ack>>' # <<obs, ack>>) =>
            /\ ack'.http = 200
            /\ ack'.status = "ignored"
            /\ ack'.reason = "missing_features"
            /\ UNCHANGED <<recent_raw_rows, live_buffer, live_buffer_maxlen,
                           consecutive_anomalies, aggregated_count, is_analyzing,
                           last_llm_request_time, last_llm_trigger_time, tasks,
                           rawHist, aggHist>>
      ]_vars

\* C18 witness: a row was rejected while a raw row was waiting in the
\* accumulator, the window held rows and an anomaly had been counted
C18_Witness ==
    /\ obs.call = "ingest"
    /\ ~obs.complete
    /\ ack.status = "ignored"
    /\ Len(recent_raw_rows) = 1
    /\ live_buffer # <<>>
    /\ consecutive_anomalies > 0


\* C19: the sequence index never decreases; each new aggregated row takes
\* an index one above the last and above the index of every row before it,
\* and the rows of the window carry strictly increasing indices, across
\* /config/runtime changes of decimation and window size and across /retrain.
C19_SequenceIndexIncreasing ==
    /\ [](/\ \A i, j \in 1..Len(live_buffer) :
                 i < j => live_buffer[i].time < live_buffer[j].time
          /\ \A i \in 1..Len(live_buffer) : live_buffer[i].time <= aggregated_count)
    /\ [][ /\ aggregated_count' >= aggregated_count
           /\ Len(aggHist') > Len(aggHist) =>
                  /\ aggregated_count' = aggregated_count + 1
                  /\ live_buffer' # <<>> => Last(live_buffer').time = aggregated_count'
         ]_vars

\* C19 witness: after a /retrain that cleared a window of at least two rows,
\* the next row has the next index, not index 1
C19_Witness ==
    /\ adminCalls = 1
    /\ decimationFixed
    /\ LIVE_WINDOW_SIZE = InitWindow
    /\ Len(live_buffer) = 1
    /\ aggregated_count >= 3
    /\ live_buffer[1].time = aggregated_count


OwnOps == {"analyze_fault", "analyze_fault_return", "display_timer",
           "freeze_display", "unfreeze_display"}

\* C21: the state of a backend's manager changes only in a step of one of
\* that backend's own manager operations; operations on another backend's
\* manager and the automatic analysis path leave it unchanged.
C21_ManagerChangesOnlyByOwnOps ==
    [][ \A b \in DOMAIN managers :
            managers'[b] # managers[b] =>
                /\ system_op'.model_name = b
                /\ system_op'.op \in OwnOps ]_vars


\* C22: for each backend at most one manual analysis is in flight; a request
\* that arrives while one is in flight is refused as busy and starts nothing.
C22_SingleFlight ==
    /\ [](\A b \in DOMAIN managers : analyses_in_flight[b] <= 1)
    /\ [][ \A b \in DOMAIN managers :
              (system_op' = [op |-> "analyze_fault", model_name |-> b]
                   /\ analyses_in_flight[b] > 0)
                  => /\ system_reply'.status = "busy"
                     /\ analyses_in_flight' = analyses_in_flight
                     /\ managers' = managers ]_vars

\* C22 witness: a second request for a backend was refused while the first
\* was still awaiting that backend
C22_Witness ==
    /\ system_op = [op |-> "analyze_fault", model_name |-> "lmstudio"]
    /\ system_reply.status = "busy"
    /\ analyses_in_flight["lmstudio"] = 1
    /\ managers["lmstudio"].is_analyzing


\* C25: a manager that is Displaying after a successful manual analysis
\* eventually stops Displaying: its display timer returns it to Idle unless
\* it is frozen first; and a display timer that fires on a Displaying manager
\* leaves it Idle, ready to accept the next request.
C25_DisplayEnds ==
    /\ \A b \in {"lmstudio", "gemini"} :
           (managers[b].is_displaying = "True") ~>
               (ManagerIdle(managers[b]) \/ managers[b].is_displaying = "frozen")
    /\ [][ \A b \in DOMAIN managers :
              (system_op' = [op |-> "display_timer", model_name |-> b]
                   /\ managers[b].is_displaying = "True")
                  => ManagerIdle(managers'[b]) /\ can_accept_request(managers'[b]) ]_vars

\* C25 witness: a display timer has returned a manager that was shown a
\* successful result to Idle
C25_Witness ==
    /\ system_op = [op |-> "display_timer", model_name |-> "lmstudio"]
    /\ managers["lmstudio"].has_result
    /\ ManagerIdle(managers["lmstudio"])
    /\ managers["lmstudio"].last_analysis_time >= managers["lmstudio"].result_timestamp + DisplayDuration


\* C26: a display timer ends only the display period that started it: a
\* step of a display timer that ends a Displaying period happens no earlier
\* than display_duration after that period began.
C26_TimerEndsOwnPeriodOnly ==
    [][ \A b \in DOMAIN managers :
            (/\ system_op' = [op |-> "display_timer", model_name |-> b]
             /\ managers[b].is_displaying = "True"
             /\ managers'[b].is_displaying = "False")
                => clock >= managers[b].result_timestamp + DisplayDuration ]_vars


\* C28: when the backend call of a manual analysis raises, analyze_fault
\* replies with status 'error', starts no display timer, and leaves the
\* manager Idle (not analyzing, not Displaying), so that it accepts the next
\* request at once.
C28_FailureReturnsToIdle ==
    [][ \A b \in DOMAIN managers :
            (/\ system_op' = [op |-> "analyze_fault_return", model_name |-> b]
             /\ system_reply'.status # "success")
                => /\ system_reply'.status = "error"
                   /\ ManagerIdle(managers'[b])
                   /\ can_accept_request(managers'[b])
                   /\ system_timers' = system_timers
                   /\ managers'[b].has_result = managers[b].has_result ]_vars

\* C28 witness: a manual analysis has just failed and its manager is Idle
C28_Witness ==
    /\ system_op = [op |-> "analyze_fault_return", model_name |-> "gemini"]
    /\ system_reply.status = "error"
    /\ ManagerIdle(managers["gemini"])
    /\ analyses_in_flight["gemini"] = 0


\* C23: on every aggregated row the consecutive-anomaly counter is reset to
\* 0 if the row is normal and incremented if it is anomalous; a trigger fires
\* only on an anomalous row with the incremented counter at least
\* required_consecutive and a window of at least max(5, floor(W/2)) rows, and
\* resets the counter to 0; a refusal (in flight or rate limited) and a row
\* that does not open the gate leave the incremented counter as it is.
C23_GateTransition ==
    [][ aggHist' # aggHist =>
            LET is_anom == process_data_point(Last(aggHist'))
                counted == consecutive_anomalies + 1
            IN  /\ ~is_anom => (consecutive_anomalies' = 0 /\ ~obs'.started)
                /\ obs'.started =>
                       /\ is_anom
                       /\ counted >= consecutive_anomalies_required
                       /\ Len(live_buffer') >= Max(5, LIVE_WINDOW_SIZE \div 2)
                       /\ consecutive_anomalies' = 0
                       /\ Len(tasks') = Len(tasks) + 1
                /\ (is_anom /\ ~obs'.started) =>
                       (consecutive_anomalies' = counted /\ tasks' = tasks)
      ]_vars

\* C23 witness: after a trigger, an anomalous row that opened the gate was
\* refused and the counter was left unreset
C23_Witness ==
    /\ obs.call = "ingest"
    /\ obs.eligible
    /\ ~obs.started
    /\ trigLog # <<>>
    /\ consecutive_anomalies > 0


\* C29: no automatic trigger fires while the window capacity W
\* (LIVE_WINDOW_SIZE) is configured below 5.
C29_NoTriggerBelowFive ==
    [][ Len(tasks') > Len(tasks) => LIVE_WINDOW_SIZE >= MinContextFloor ]_vars


\* C24: has_state_changed returns True on the first check, whenever the
\* state hash differs from the recorded one, or when check_interval has
\* passed since the recorded check; it returns False only when the state is
\* unchanged and the interval has not passed.
C24_ChangedOrIntervalPassed ==
    [][ checks_done' # checks_done =>
            (change_reply'.has_changed <=>
                \/ last_state_hash = NoHash
                \/ change_reply'.hash # last_state_hash
                \/ clock - last_check_time >= CheckInterval) ]_vars


\* the loop threads that have not ended
LiveLoops == {i \in 1..Len(sim_threads) : sim_threads[i] # "exited"}

\* C30: at most one simulation loop thread is producing rows at any time;
\* start is refused while a loop is running, and a loop that was stopped
\* never enters its body again once a newer loop has been started.
C30_OneLoopProducing ==
    /\ [](Cardinality({i \in 1..Len(sim_threads) : sim_threads[i] = "step"}) <= 1)
    /\ [][ \A i \in 1..Len(sim_threads) :
              (sim_threads[i] = "check" /\ sim_threads'[i] = "step")
                  => i = Len(sim_threads) ]_vars


\* the active models after toggle_model(m, on) in the current state
ActiveAfter(runtime, m, on) ==
    get_active_models(enabled_models,
                      runtime_after_toggle(enabled_models, runtime, m, on))

\* the parts of C27 other than the round trip: after a toggle of a known
\* model m, m is active iff enabled is true, every other model's membership
\* is unchanged and repeating the toggle changes nothing; a toggle of an
\* unknown model is an error that changes nothing
ToggleLaws ==
    /\ [](\A m \in clients, on \in BOOLEAN :
          LET runtime1 == runtime_after_toggle(enabled_models, runtime_enabled_models, m, on)
              before == get_active_models(enabled_models, runtime_enabled_models)
              after == get_active_models(enabled_models, runtime1)
          IN  /\ (m \in after) <=> on
              /\ after \ {m} = before \ {m}
              /\ runtime_after_toggle(enabled_models, runtime1, m, on) = runtime1)
    /\ [][ toggle_reply'.model \notin clients =>
              /\ toggle_reply'.status = "error"
              /\ runtime_enabled_models' = runtime_enabled_models ]_vars
    /\ [][ (toggle_reply'.model \in clients /\ toggle_reply' # toggle_reply) =>
              /\ toggle_reply'.status = "success"
              /\ toggle_reply'.active_models =
                     get_active_models(enabled_models, runtime_enabled_models') ]_vars

\* the active models after disabling and then enabling m
AfterDisableEnable(m) ==
    ActiveAfter(runtime_after_toggle(enabled_models, runtime_enabled_models, m, FALSE),
                m, TRUE)

\* C27 as stated: the laws above, and disabling then enabling any known model
\* restores the original active set.
C27_ToggleRoundTripAlways ==
    /\ ToggleLaws
    /\ [](\A m \in clients :
            AfterDisableEnable(m) =
                get_active_models(enabled_models, runtime_enabled_models))

\* C27 amended: the laws above, and disabling then enabling a model that
\* was active restores the original active set; for a model that was not
\* active the result is the original set with the model added.
C27_ToggleRoundTripOfActive ==
    /\ ToggleLaws
    /\ [](\A m \in clients :
            LET before == get_active_models(enabled_models, runtime_enabled_models)
            IN  AfterDisableEnable(m) = before \cup {m})

\* C27 witness: toggles have disabled a configured model and enabled one that
\* the configuration leaves out
C27_Witness ==
    /\ toggle_reply.status = "success"
    /\ \E m \in Backends : <<"disabled", m>> \in runtime_enabled_models
    /\ \E m \in Backends : <<"on", m>> \in runtime_enabled_models


====
